---- MODULE Spec2Model ----
(***************************************************************************)
(* Model of repyability.py: the risk-set builder get_r_c_d, the three      *)
(* non-parametric estimators, turnbull, rank_adjust and the three          *)
(* rank-regression fitters.  Every function of the source is a pure        *)
(* function of its arguments, so a behaviour is one call: Init draws the   *)
(* function and its arguments, the function's action computes the value    *)
(* it returns (or the exception it raises).                                *)
(*                                                                         *)
(* numpy arrays are sequences (1-based).  An optional argument is <<>>     *)
(* for None and <<v>> for a value v.  float64 values are records           *)
(* [k, n, d]: k = "fin" is the rational n/d in lowest terms (d > 0),       *)
(* k = "nan" is NaN, k = "inf" is the infinity of sign n, k = "neglog"     *)
(* is -log(n/d) and k = "expneg" is exp(-(n/d)) for a finite n/d whose     *)
(* image is not rational.  Rounding is not modelled.                       *)
(***************************************************************************)
EXTENDS Integers, Sequences, FiniteSets, TLC

\* ---- bounds of the checked inputs ----
MaxLen == 3        \* entries of an observation set given without counts
MaxCounted == 2    \* entries of an observation set given with counts
MaxTime == 3       \* times are drawn from 1..MaxTime
MaxNeg == 1        \* counts are drawn from -MaxNeg..MaxCount
MaxCount == 2
MaxUnits == 3      \* units of an interval-censored sample
MaxRankLen == 3    \* entries handed to rank_adjust
MaxFitLen == 2     \* entries handed to a rank-regression fitter

\* ---- optional arguments ----
None == <<>>
Some(v) == <<v>>
IsNone(o) == o = <<>>
Val(o) == o[1]

\* ---- float64 values ----
Abs(i) == IF i < 0 THEN 0 - i ELSE i
Sgn(i) == IF i < 0 THEN 0 - 1 ELSE IF i = 0 THEN 0 ELSE 1

RECURSIVE GCD(_, _)
GCD(a, b) == IF b = 0 THEN a ELSE GCD(b, a % b)

NaN == [k |-> "nan", n |-> 0, d |-> 1]
Inf(s) == [k |-> "inf", n |-> s, d |-> 1]
Rat(n, d) ==
  LET g == GCD(Abs(n), Abs(d))
  IN [k |-> "fin", n |-> (Sgn(d) * n) \div g, d |-> Abs(d) \div g]
FInt(i) == [k |-> "fin", n |-> i, d |-> 1]

\* a / b on float64 (numpy true division: x/0 is inf or nan, never an error)
FDiv(a, b) ==
  IF a.k = "nan" \/ b.k = "nan" THEN NaN
  ELSE IF a.k = "inf" THEN (IF b.k = "inf" THEN NaN
                            ELSE Inf(IF b.n < 0 THEN 0 - a.n ELSE a.n))
  ELSE IF b.k = "inf" THEN FInt(0)
  ELSE IF b.n = 0 THEN (IF a.n = 0 THEN NaN ELSE Inf(Sgn(a.n)))
  ELSE Rat(a.n * b.d, a.d * b.n)

\* a * b on float64
FMul(a, b) ==
  IF a.k = "nan" \/ b.k = "nan" THEN NaN
  ELSE IF a.k = "inf" \/ b.k = "inf"
       THEN (IF a.n = 0 \/ b.n = 0 THEN NaN ELSE Inf(Sgn(a.n) * Sgn(b.n)))
  ELSE Rat(a.n * b.n, a.d * b.d)

\* a + b on float64
FAdd(a, b) ==
  IF a.k = "nan" \/ b.k = "nan" THEN NaN
  ELSE IF a.k = "inf" THEN (IF b.k = "inf" /\ b.n # a.n THEN NaN ELSE a)
  ELSE IF b.k = "inf" THEN b
  ELSE Rat(a.n * b.d + b.n * a.d, a.d * b.d)

FNeg(a) == IF a.k = "nan" THEN NaN ELSE [a EXCEPT !.n = 0 - a.n]

\* a <= b on float64 (every comparison with NaN is false)
FLe(a, b) ==
  IF a.k = "nan" \/ b.k = "nan" THEN FALSE
  ELSE IF a.k = "inf" THEN (a.n < 0 \/ (b.k = "inf" /\ b.n > 0))
  ELSE IF b.k = "inf" THEN b.n > 0
  ELSE a.n * b.d <= b.n * a.d

FLt(a, b) == FLe(a, b) /\ a # b

\* ---- numpy helpers ----
RECURSIVE SumSeq(_)
SumSeq(s) == IF s = <<>> THEN 0 ELSE s[1] + SumSeq(Tail(s))

\* np.cumsum(s)[i] on integers
CumSum(s, i) == SumSeq(SubSeq(s, 1, i))

\* np.zeros_like(s)
zeros_like(s) == [i \in 1..Len(s) |-> 0]

\* np.unique(s): the sorted distinct values
RECURSIVE SortedSeq(_)
SortedSeq(S) ==
  IF S = {} THEN <<>>
  ELSE LET m == CHOOSE v \in S : \A w \in S : v <= w
       IN <<m>> \o SortedSeq(S \ {m})
unique(s) == SortedSeq({s[i] : i \in 1..Len(s)})

\* np.argsort(s): a permutation that sorts s; the default sort is not
\* stable, so equal keys may come out in any order
argsort(s) ==
  {p \in [1..Len(s) -> 1..Len(s)] :
     /\ \A i, j \in 1..Len(s) : i # j => p[i] # p[j]
     /\ \A i, j \in 1..Len(s) : i < j => s[p[i]] <= s[p[j]]}

\* s[idx]
Take(s, idx) == [i \in 1..Len(s) |-> s[idx[i]]]

\* ---- transcendental functions on float64 ----
\* -np.log(v)
NegLog(v) ==
  IF v.k = "nan" THEN NaN
  ELSE IF v.k = "inf" THEN (IF v.n > 0 THEN Inf(0 - 1) ELSE NaN)
  ELSE IF v.n < 0 THEN NaN
  ELSE IF v.n = 0 THEN Inf(1)
  ELSE IF v.n = v.d THEN FInt(0)
  ELSE [k |-> "neglog", n |-> v.n, d |-> v.d]

\* the argument of a finite value of NegLog
LogArg(v) == IF v.k = "neglog" THEN Rat(v.n, v.d) ELSE FInt(1)

\* a - b for two values of NegLog: -log(p) + log(q) = -log(p/q)
LogDiff(a, b) ==
  IF a.k = "nan" \/ b.k = "nan" THEN NaN
  ELSE IF a.k = "inf" THEN (IF b.k = "inf" /\ b.n = a.n THEN NaN ELSE a)
  ELSE IF b.k = "inf" THEN Inf(0 - b.n)
  ELSE NegLog(FDiv(LogArg(a), LogArg(b)))

\* np.exp(-v)
ExpNeg(v) ==
  IF v.k = "nan" THEN NaN
  ELSE IF v.k = "inf" THEN (IF v.n > 0 THEN FInt(0) ELSE Inf(1))
  ELSE IF v.n = 0 THEN FInt(1)
  ELSE [k |-> "expneg", n |-> v.n, d |-> v.d]

\* 1 - v
OneMinus(v) ==
  IF v.k = "expneg" THEN [k |-> "1-expneg", n |-> v.n, d |-> v.d]
  ELSE FAdd(FInt(1), FNeg(v))

\* ---- get_r_c_d ----
\* the population size
PopSize(x, counts) == IF IsNone(counts) THEN Len(x) ELSE SumSeq(Val(counts))

\* x, d = np.unique(x, return_counts=True): d[j]
UniqueCount(x, v) == Cardinality({i \in 1..Len(x) : x[i] = v})

\* the accumulation loop run without its last entry
RECURSIVE AccumulateButLast(_, _, _, _)
AccumulateButLast(t, w, v, i) ==
  IF i >= Len(t) THEN 0
  ELSE (IF t[i] = v THEN w[i] ELSE 0) + AccumulateButLast(t, w, v, i + 1)

\* the loop  for i in range(len(t)): a[x == t[i]] += w[i]  run for the
\* entries i..len(t), at the row of value v
RECURSIVE Accumulate(_, _, _, _)
Accumulate(t, w, v, i) ==
  IF i > Len(t) THEN 0
  ELSE (IF t[i] = v THEN w[i] ELSE 0) + Accumulate(t, w, v, i + 1)

\* the risk-set recurrence with the current row counted as already gone
RiskSetShifted(N, d, c) ==
  [i \in 1..Len(d) |-> N - CumSum(d, i) - CumSum(c, i)]

\* r = np.repeat(N, len(d)); r[1::] -= cumsum(d)[0:-1] + cumsum(c)[0:-1]
RiskSet(N, d, c) ==
  [i \in 1..Len(d) |->
     IF i = 1 THEN N ELSE N - CumSum(d, i - 1) - CumSum(c, i - 1)]

\* idx is the value np.argsort(x) returned
get_r_c_d(x, censored, counts, idx) ==
  LET N == PopSize(x, counts)
      ux == unique(x)
      xs == Take(x, idx)
      tab ==
        IF IsNone(censored)
        THEN IF IsNone(counts)
             THEN [x |-> ux,
                   d |-> [j \in 1..Len(ux) |-> UniqueCount(x, ux[j])],
                   c |-> zeros_like(ux)]
             ELSE [x |-> xs,
                   d |-> Take(Val(counts), idx),
                   c |-> zeros_like(xs)]
        ELSE IF IsNone(counts)
             THEN LET cen == Val(censored)
                      fail == [i \in 1..Len(x) |-> 1 - cen[i]]
                  IN [x |-> ux,
                      d |-> [j \in 1..Len(ux) |-> Accumulate(x, fail, ux[j], 1)],
                      c |-> [j \in 1..Len(ux) |-> Accumulate(x, cen, ux[j], 1)]]
             ELSE LET cnt == Take(Val(counts), idx)
                      cen == Take(Val(censored), idx)
                      wd == [i \in 1..Len(x) |-> (1 - cen[i]) * cnt[i]]
                      wc == [i \in 1..Len(x) |-> cen[i] * cnt[i]]
                  IN [x |-> ux,
                      d |-> [j \in 1..Len(ux) |-> Accumulate(xs, wd, ux[j], 1)],
                      c |-> [j \in 1..Len(ux) |-> Accumulate(xs, wc, ux[j], 1)]]
  IN [kind |-> "ok", x |-> tab.x, r |-> RiskSet(N, tab.d, tab.c),
      c |-> tab.c, d |-> tab.d]

\* ---- the estimators ----
\* np.cumsum on float64: the i'th partial sum
RECURSIVE FCumSum(_, _)
FCumSum(s, i) == IF i = 1 THEN s[1] ELSE FAdd(FCumSum(s, i - 1), s[i])

\* np.cumprod on float64: the i'th partial product
RECURSIVE FCumProd(_, _)
FCumProd(s, i) == IF i = 1 THEN s[1] ELSE FMul(FCumProd(s, i - 1), s[i])

\* h = (d/r)
NAHazard(r, d) == [i \in 1..Len(r) |-> FDiv(FInt(d[i]), FInt(r[i]))]

nelson_aalen(x, censored, counts, idx) ==
  LET N == PopSize(x, counts)
      t == get_r_c_d(x, censored, counts, idx)
      h == NAHazard(t.r, t.d)
      H == [i \in 1..Len(h) |-> FCumSum(h, i)]
      R == [i \in 1..Len(h) |-> ExpNeg(H[i])]
  IN [kind |-> "ok", model |-> "Nelson-Aalen", x |-> t.x, r |-> t.r,
      c |-> t.c, d |-> t.d, N |-> N, h |-> h, H |-> H, R |-> R,
      F |-> [i \in 1..Len(h) |-> OneMinus(R[i])]]

\* np.divide((r - d), r)
KMRatio(r, d) == [i \in 1..Len(r) |-> FDiv(FInt(r[i] - d[i]), FInt(r[i]))]

\* R = np.cumprod(np.divide((r - d), r))
KMSurvival(r, d) ==
  LET q == KMRatio(r, d) IN [i \in 1..Len(r) |-> FCumProd(q, i)]

kaplan_meier(x, censored, counts, idx) ==
  LET N == PopSize(x, counts)
      t == get_r_c_d(x, censored, counts, idx)
      R == KMSurvival(t.r, t.d)
      H == [i \in 1..Len(R) |-> NegLog(R[i])]
      h == [i \in 1..Len(R) |-> IF i = 1 THEN H[1] ELSE LogDiff(H[i], H[i - 1])]
  IN IF Len(R) = 0
     THEN [kind |-> "IndexError"]    \* h[0] = H[0] on empty arrays
     ELSE [kind |-> "ok", model |-> "Kaplan-Meier", x |-> t.x, r |-> t.r,
           c |-> t.c, d |-> t.d, N |-> N, h |-> h, H |-> H, R |-> R,
           F |-> [i \in 1..Len(R) |-> OneMinus(R[i])]]

\* np.sum([1./(r-j) for j in range(d)]), the terms j..d-1
RECURSIVE HarmonicSum(_, _, _)
HarmonicSum(r, d, j) ==
  IF j >= d THEN FInt(0)
  ELSE FAdd(FDiv(FInt(1), FInt(r - j)), HarmonicSum(r, d, j + 1))

\* h = [np.sum([1./(r[i]-j) for j in range(d[i])]) for i in range(len(x))]
FHHazard(r, d) == [i \in 1..Len(r) |-> HarmonicSum(r[i], d[i], 0)]

fleming_harrington(x, censored, counts, idx) ==
  LET N == PopSize(x, counts)
      t == get_r_c_d(x, censored, counts, idx)
      h == FHHazard(t.r, t.d)
      H == [i \in 1..Len(h) |-> FCumSum(h, i)]
      R == [i \in 1..Len(h) |-> ExpNeg(H[i])]
  IN [kind |-> "ok", model |-> "Fleming-Harrington", x |-> t.x, r |-> t.r,
      c |-> t.c, d |-> t.d, N |-> N, h |-> h, H |-> H, R |-> R,
      F |-> [i \in 1..Len(h) |-> OneMinus(R[i])]]

\* ---- turnbull ----
\* alphas[i, j] = int((lower[i] <= x[j]) and (upper[i] >= x[j]))
Alpha(lower, upper, x, i, j) ==
  IF lower[i] <= x[j] /\ upper[i] >= x[j] THEN 1 ELSE 0

\* the loop  for k in range(m): denominator += alphas[i, k] * p[k]  run for
\* the points k..m
RECURSIVE Denominator(_, _, _, _)
Denominator(al, p, i, k) ==
  IF k > Len(p) THEN FInt(0)
  ELSE FAdd(FMul(FInt(al[i][k]), p[k]), Denominator(al, p, i, k + 1))

\* np.sum(dd) over the units i..n, dd[i] = numerator / denominator
RECURSIVE MassAt(_, _, _, _)
MassAt(al, p, j, i) ==
  IF i > Len(al) THEN FInt(0)
  ELSE FAdd(FDiv(FMul(FInt(al[i][j]), p[j]), Denominator(al, p, i, 1)),
            MassAt(al, p, j, i + 1))

\* the value returned: d[j] = np.sum(dd), one pass over the points
TurnbullMass(al, p) == [j \in 1..Len(p) |-> MassAt(al, p, j, 1)]

turnbull(lower, upper) ==
  LET n == Len(lower)
      x == unique(lower \o upper)
      m == Len(x)
      p == [j \in 1..m |-> Rat(1, m)]
      alphas == [i \in 1..n |-> [j \in 1..m |-> Alpha(lower, upper, x, i, j)]]
  IN IF m = 0
     THEN [kind |-> "ZeroDivisionError"]    \* 1./m
     ELSE [kind |-> "ok", alphas |-> alphas, d |-> TurnbullMass(alphas, p)]

\* ---- rank_adjust and plotting_positions ----
\* the rank increment without the previous mean order number added
RankStepNoCarry(PMON, n, i) ==
  FDiv(FAdd(FInt(n + 1), FNeg(PMON)), FInt(n - i + 2))

\* ranks[i] = PMON + (n + 1 - PMON)/(n - i + 2), i counted from 0
RankStep(PMON, n, i) ==
  FAdd(PMON, FDiv(FAdd(FInt(n + 1), FNeg(PMON)), FInt(n - i + 2)))

\* the rank of a censored entry
CensoredRank == NaN

\* PMON before the iteration i (counted from 0) of the loop
RECURSIVE PMONBefore(_, _, _)
PMONBefore(cen, n, i) ==
  IF i = 0 THEN FInt(0)
  ELSE IF cen[i] = 0 THEN RankStep(PMONBefore(cen, n, i - 1), n, i - 1)
  ELSE PMONBefore(cen, n, i - 1)

\* idx is the value np.argsort(t) returned; the value is the sorted ranks
rank_adjust(t, censored, idx) ==
  IF IsNone(censored)
  THEN [kind |-> "TypeError"]    \* censored[idx] on None
  ELSE LET cen == Take(Val(censored), idx)
           n == Len(t)
       IN [kind |-> "ok",
           ranks |-> [k \in 1..n |->
                        IF cen[k] = 0
                        THEN RankStep(PMONBefore(cen, n, k - 1), n, k - 1)
                        ELSE CensoredRank]]

\* the constants (A, B) of a formula name
Formulas ==
  {"Blom", "Median", "Modal", "Midpoint", "Mean", "Weibull", "Benard",
   "Beard", "Hazen", "Filiben", "Gringorten", "None", "Tukey", "DPW"}
FormulaA(f) ==
  CASE f = "Blom" -> Rat(375, 1000)
    [] f = "Median" -> Rat(3, 10)
    [] f = "Modal" -> Rat(1, 1)
    [] f = "Midpoint" -> Rat(1, 2)
    [] f = "Mean" -> Rat(0, 1)
    [] f = "Weibull" -> Rat(0, 1)
    [] f = "Benard" -> Rat(3, 10)
    [] f = "Beard" -> Rat(31, 100)
    [] f = "Hazen" -> Rat(1, 2)
    [] f = "Filiben" -> Rat(3175, 10000)
    [] f = "Gringorten" -> Rat(44, 100)
    [] f = "None" -> Rat(0, 1)
    [] f = "Tukey" -> Rat(1, 3)
    [] f = "DPW" -> Rat(1, 1)
FormulaB(f) ==
  CASE f = "Blom" -> Rat(1, 4)
    [] f = "Median" -> Rat(4, 10)
    [] f = "Modal" -> Rat(0 - 1, 1)
    [] f = "Midpoint" -> Rat(0, 1)
    [] f = "Mean" -> Rat(1, 1)
    [] f = "Weibull" -> Rat(1, 1)
    [] f = "Benard" -> Rat(2, 10)
    [] f = "Beard" -> Rat(38, 100)
    [] f = "Hazen" -> Rat(0, 1)
    [] f = "Filiben" -> Rat(1635, 1000)
    [] f = "Gringorten" -> Rat(12, 100)
    [] f = "None" -> Rat(0, 1)
    [] f = "Tukey" -> Rat(1, 3)
    [] f = "DPW" -> Rat(0, 1)

\* the plotting position without the constant A subtracted from the rank
PlotPosNoShift(rank, n, f) == FDiv(rank, FAdd(FInt(n), FormulaB(f)))

\* pp = (ranks - A)/(len(ranks) + B)
PlotPos(rank, n, f) ==
  FDiv(FAdd(rank, FNeg(FormulaA(f))), FAdd(FInt(n), FormulaB(f)))

plotting_positions(t, censored, formula, idx) ==
  LET ra == rank_adjust(t, censored, idx)
      ranks == IF IsNone(censored) THEN [k \in 1..Len(t) |-> FInt(k)]
               ELSE ra.ranks
  IN IF formula \notin Formulas
     THEN [kind |-> "UnboundLocalError"]    \* A, B were never bound
     ELSE [kind |-> "ok",
           pp |-> [k \in 1..Len(t) |-> PlotPos(ranks[k], Len(t), formula)]]

\* ---- the rank-regression fitters ----
\* The plotting positions are computed; the numbers np.polyfit and
\* scipy's minimize return are not: a fit is the count of the parameters
\* returned and whether a warning was issued.
Params(k, w) == [kind |-> "params", arity |-> k, warned |-> w]
ReturnsNone == [kind |-> "None"]
Raises(e) == [kind |-> e]

\* the entries with censored == 0
Uncensored(cen) == {i \in 1..Len(cen) : cen[i] = 0}

\* np.polyfit on the uncensored entries: an empty vector is a TypeError
PolyFit(cen) ==
  IF Uncensored(cen) = {} THEN Raises("TypeError") ELSE Params(2, FALSE)

\* the sorted censoring codes and the plotting positions of a fitter:
\* idx sorts t, idx2 is the argsort rank_adjust takes of the sorted times
FitInput(t, censored, plotting, idx, idx2) ==
  LET cen == Take(IF IsNone(censored) THEN zeros_like(t) ELSE Val(censored),
                  idx)
  IN [cen |-> cen,
      f |-> plotting_positions(Take(t, idx), Some(cen), plotting, idx2)]

\* the branch  if rr == 'y' ... elif rr == 'x' ... else: return None
WeibullDirection(rr, cen) ==
  IF rr = "y" \/ rr = "x" THEN PolyFit(cen) ELSE ReturnsNone

\* the branch  if rr == 'y' ... elif rr == 'x' ... else: raise Exception
RaisingDirection(rr, cen) ==
  IF rr = "y" \/ rr = "x" THEN PolyFit(cen) ELSE Raises("Exception")

\* the branch  else:  of  if not lfp:  which never looks at rr but to warn
LfpFit(rr) == Params(3, rr = "x")

weibull_lsq(t, censored, plotting, lfp, rr, idx, idx2) ==
  LET in == FitInput(t, censored, plotting, idx, idx2)
  IN IF Len(t) = 0 THEN ReturnsNone
     ELSE IF in.f.kind # "ok" THEN Raises(in.f.kind)
     ELSE IF ~lfp THEN WeibullDirection(rr, in.cen)
     ELSE LfpFit(rr)

gumbel_lsq(t, censored, plotting, lfp, rr, idx, idx2) ==
  LET in == FitInput(t, censored, plotting, idx, idx2)
  IN IF Len(t) = 0 THEN ReturnsNone
     ELSE IF in.f.kind # "ok" THEN Raises(in.f.kind)
     ELSE IF ~lfp THEN RaisingDirection(rr, in.cen)
     ELSE LfpFit(rr)

normal_lsq(t, censored, plotting, lfp, rr, idx, idx2) ==
  LET in == FitInput(t, censored, plotting, idx, idx2)
  IN IF Len(t) = 0 THEN ReturnsNone
     ELSE IF in.f.kind # "ok" THEN Raises(in.f.kind)
     ELSE IF ~lfp THEN RaisingDirection(rr, in.cen)
     ELSE LfpFit(rr)

\* ---- the calls ----
\* idx is the local variable idx of the call: the value of np.argsort
VARIABLES fn, args, pc, ret, idx
vars == <<fn, args, pc, ret, idx>>

Times == 1..MaxTime
Codes == {0, 1}
Counts == (0 - MaxNeg)..MaxCount

SeqsOf(S, n) == [1..n -> S]
OptSeqsOf(S, n) == {None} \cup {Some(s) : s \in SeqsOf(S, n)}

\* the observation sets: times, optional censoring codes, optional counts,
\* aligned by index
Observations ==
  UNION ({[x : SeqsOf(Times, n), censored : OptSeqsOf(Codes, n),
           counts : {None}] : n \in 0..MaxLen}
         \cup
         {[x : SeqsOf(Times, n), censored : OptSeqsOf(Codes, n),
           counts : {Some(s) : s \in SeqsOf(Counts, n)}] : n \in 0..MaxCounted})

\* the example of the specification's section 8
ExampleObs ==
  [x |-> <<2, 3, 5, 8, 10>>, censored |-> Some(<<0, 1, 0, 0, 1>>),
   counts |-> None]

\* the interval-censored samples
Intervals ==
  UNION {[lower : SeqsOf(Times, n), upper : SeqsOf(Times, n)]
         : n \in 0..MaxUnits}

\* the arguments of rank_adjust
RankInputs ==
  UNION {[t : SeqsOf(Times, n), censored : OptSeqsOf(Codes, n)]
         : n \in 0..MaxRankLen}

\* the arguments of plotting_positions
PlotInputs ==
  UNION {[t : SeqsOf(Times, n), censored : OptSeqsOf(Codes, n),
          formula : Formulas \cup {"Bogus"}] : n \in 0..MaxRankLen}

\* the arguments of a fitter
Directions == {"x", "y", "z"}
FitInputs ==
  UNION {[t : SeqsOf(Times, n), censored : OptSeqsOf(Codes, n),
          plotting : {"Blom", "Modal", "Bogus"}, lfp : BOOLEAN,
          rr : Directions] : n \in 0..MaxFitLen}

NonParametricFns ==
  {"get_r_c_d", "nelson_aalen", "kaplan_meier", "fleming_harrington"}
Fitters == {"weibull_lsq", "gumbel_lsq", "normal_lsq"}

Pending == [kind |-> "pending"]

Init ==
  /\ pc = "call"
  /\ ret = Pending
  /\ idx = <<>>
  /\ \/ fn \in NonParametricFns /\ args \in Observations \cup {ExampleObs}
     \/ fn = "turnbull" /\ args \in Intervals
     \/ fn = "rank_adjust" /\ args \in RankInputs
     \/ fn = "plotting_positions" /\ args \in PlotInputs
     \/ fn \in Fitters /\ args \in FitInputs

Call_get_r_c_d ==
  /\ pc = "call" /\ fn = "get_r_c_d"
  /\ \E p \in argsort(args.x) :
       /\ idx' = p
       /\ ret' = get_r_c_d(args.x, args.censored, args.counts, p)
  /\ pc' = "done"
  /\ UNCHANGED <<fn, args>>

Call_nelson_aalen ==
  /\ pc = "call" /\ fn = "nelson_aalen"
  /\ \E p \in argsort(args.x) :
       /\ idx' = p
       /\ ret' = nelson_aalen(args.x, args.censored, args.counts, p)
  /\ pc' = "done"
  /\ UNCHANGED <<fn, args>>

Call_kaplan_meier ==
  /\ pc = "call" /\ fn = "kaplan_meier"
  /\ \E p \in argsort(args.x) :
       /\ idx' = p
       /\ ret' = kaplan_meier(args.x, args.censored, args.counts, p)
  /\ pc' = "done"
  /\ UNCHANGED <<fn, args>>

Call_fleming_harrington ==
  /\ pc = "call" /\ fn = "fleming_harrington"
  /\ \E p \in argsort(args.x) :
       /\ idx' = p
       /\ ret' = fleming_harrington(args.x, args.censored, args.counts, p)
  /\ pc' = "done"
  /\ UNCHANGED <<fn, args>>

Call_turnbull ==
  /\ pc = "call" /\ fn = "turnbull"
  /\ ret' = turnbull(args.lower, args.upper)
  /\ idx' = <<>>
  /\ pc' = "done"
  /\ UNCHANGED <<fn, args>>

Call_rank_adjust ==
  /\ pc = "call" /\ fn = "rank_adjust"
  /\ \E p \in argsort(args.t) :
       /\ idx' = p
       /\ ret' = rank_adjust(args.t, args.censored, p)
  /\ pc' = "done"
  /\ UNCHANGED <<fn, args>>

Call_plotting_positions ==
  /\ pc = "call" /\ fn = "plotting_positions"
  /\ \E p \in argsort(args.t) :
       /\ idx' = p
       /\ ret' = plotting_positions(args.t, args.censored, args.formula, p)
  /\ pc' = "done"
  /\ UNCHANGED <<fn, args>>

Call_weibull_lsq ==
  /\ pc = "call" /\ fn = "weibull_lsq"
  /\ \E p \in argsort(args.t) : \E p2 \in argsort(Take(args.t, p)) :
       /\ idx' = p
       /\ ret' = weibull_lsq(args.t, args.censored, args.plotting, args.lfp,
                 args.rr, p, p2)
  /\ pc' = "done"
  /\ UNCHANGED <<fn, args>>

Call_gumbel_lsq ==
  /\ pc = "call" /\ fn = "gumbel_lsq"
  /\ \E p \in argsort(args.t) : \E p2 \in argsort(Take(args.t, p)) :
       /\ idx' = p
       /\ ret' = gumbel_lsq(args.t, args.censored, args.plotting, args.lfp,
                 args.rr, p, p2)
  /\ pc' = "done"
  /\ UNCHANGED <<fn, args>>

Call_normal_lsq ==
  /\ pc = "call" /\ fn = "normal_lsq"
  /\ \E p \in argsort(args.t) : \E p2 \in argsort(Take(args.t, p)) :
       /\ idx' = p
       /\ ret' = normal_lsq(args.t, args.censored, args.plotting, args.lfp,
                 args.rr, p, p2)
  /\ pc' = "done"
  /\ UNCHANGED <<fn, args>>

Next ==
  \/ Call_get_r_c_d
  \/ Call_nelson_aalen
  \/ Call_kaplan_meier
  \/ Call_fleming_harrington
  \/ Call_turnbull
  \/ Call_rank_adjust
  \/ Call_plotting_positions
  \/ Call_weibull_lsq
  \/ Call_gumbel_lsq
  \/ Call_normal_lsq

Spec == Init /\ [][Next]_vars

\* ---- the claims ----
Returned(f) == pc = "done" /\ fn = f
Rows(s) == 1..Len(s)

\* C1: the risk set get_r_c_d returns starts at the population size N
\* (the number of entries without counts, the sum of the counts with
\* them) and every later r[i] is r[i-1] - d[i-1] - c[i-1].
C1_RiskSetRecurrence ==
  (Returned("get_r_c_d") /\ ret.kind = "ok") =>
    /\ Len(ret.r) > 0 =>
         ret.r[1] = (IF IsNone(args.counts) THEN Len(args.x)
                     ELSE SumSeq(Val(args.counts)))
    /\ \A i \in 2..Len(ret.r) :
         ret.r[i] = ret.r[i - 1] - ret.d[i - 1] - ret.c[i - 1]

\* a table of two or more rows built from censoring codes and counts, with
\* failures in its first row and censorings in its second
C1_Witness ==
  /\ Returned("get_r_c_d") /\ ret.kind = "ok"
  /\ ~IsNone(args.counts) /\ ~IsNone(args.censored)
  /\ Len(ret.r) >= 2 /\ ret.d[1] > 0 /\ ret.c[2] > 0

\* C2: in every table get_r_c_d returns, r never increases along the time
\* axis and r[i] >= d[i] + c[i] at every row.
C2_RiskSetMonotone ==
  (Returned("get_r_c_d") /\ ret.kind = "ok") =>
    /\ \A i \in 2..Len(ret.r) : ret.r[i] <= ret.r[i - 1]
    /\ \A i \in Rows(ret.r) : ret.r[i] >= ret.d[i] + ret.c[i]

\* C3 as stated: the example yields four rows, on the times 2, 5, 8, 10.
C3_ExampleFourRows ==
  (Returned("get_r_c_d") /\ args = ExampleObs) =>
    /\ ret.x = <<2, 5, 8, 10>>
    /\ ret.r = <<5, 4, 3, 2>>
    /\ ret.d = <<1, 0, 1, 1>>
    /\ ret.c = <<0, 1, 0, 1>>

\* C3 amended: the example yields one row for each of its five unique
\* times, the censored-only time 3 included: r = [5,4,3,2,1],
\* d = [1,0,1,1,0], c = [0,1,0,0,1] on the times [2,3,5,8,10].
C3_ExampleFiveRows ==
  (Returned("get_r_c_d") /\ args = ExampleObs) =>
    /\ ret.x = <<2, 3, 5, 8, 10>>
    /\ ret.r = <<5, 4, 3, 2, 1>>
    /\ ret.d = <<1, 0, 1, 1, 0>>
    /\ ret.c = <<0, 1, 0, 0, 1>>

C3_Witness == Returned("get_r_c_d") /\ args = ExampleObs /\ ret.kind = "ok"

\* C4: get_r_c_d and the three estimators fail with InvalidInput, and
\* return no table, when a count is negative or the population size is 0.
C4_InvalidInputRejected ==
  (/\ pc = "done" /\ fn \in NonParametricFns
   /\ \/ PopSize(args.x, args.counts) = 0
      \/ /\ ~IsNone(args.counts)
         /\ \E i \in Rows(args.x) : Val(args.counts)[i] < 0)
  => ret.kind = "InvalidInput"

\* the counts of the call, if any, are all non-negative
NonNegativeCounts ==
  IsNone(args.counts) \/ \A i \in Rows(args.x) : Val(args.counts)[i] >= 0

\* C5: with censoring codes in {0,1} and non-negative counts, the R that
\* kaplan_meier returns never increases, lies in [0,1], and is 1 at every
\* row before the first row with a failure.
C5_KMSurvival ==
  (Returned("kaplan_meier") /\ ret.kind = "ok" /\ NonNegativeCounts) =>
    \A i \in Rows(ret.R) :
      /\ FLe(FInt(0), ret.R[i]) /\ FLe(ret.R[i], FInt(1))
      /\ i > 1 => FLe(ret.R[i], ret.R[i - 1])
      /\ (\A k \in 1..i : ret.d[k] <= 0) => ret.R[i] = FInt(1)

\* C6: when no row of the table has more than one failure, the h that
\* fleming_harrington returns is, row by row, the h = d/r that
\* nelson_aalen returns for the same input (the same table).
C6_FHEqualsNA ==
  (/\ Returned("fleming_harrington") /\ ret.kind = "ok"
   /\ \A i \in Rows(ret.d) : ret.d[i] <= 1)
  => ret.h = nelson_aalen(args.x, args.censored, args.counts, idx).h

\* np.sum on float64
RECURSIVE FSum(_)
FSum(s) == IF s = <<>> THEN FInt(0) ELSE FAdd(s[1], FSum(Tail(s)))

\* C7: for a sample with lower[i] <= upper[i] for every unit, the mass
\* vector d that turnbull returns sums to 1.
C7_MassSumsToOne ==
  (/\ Returned("turnbull") /\ ret.kind = "ok"
   /\ \A i \in Rows(args.lower) : args.lower[i] <= args.upper[i])
  => FSum(ret.d) = FInt(1)

\* C8: for n entries that are all uncensored, rank_adjust returns the
\* ranks 1, 2, ..., n in time order.
C8_PlainRanks ==
  (/\ Returned("rank_adjust") /\ ret.kind = "ok"
   /\ \A i \in Rows(args.t) : Val(args.censored)[i] = 0)
  => \A k \in Rows(ret.ranks) : ret.ranks[k] = FInt(k)

\* C9: the ranks of the uncensored entries strictly increase in sorted
\* time order, and the rank of every censored entry is NaN.
C9_RanksIncreasing ==
  (Returned("rank_adjust") /\ ret.kind = "ok") =>
    LET cen == Take(Val(args.censored), idx)
    IN /\ \A i, j \in Rows(ret.ranks) :
            (i < j /\ cen[i] = 0 /\ cen[j] = 0)
              => FLt(ret.ranks[i], ret.ranks[j])
       /\ \A i \in Rows(ret.ranks) :
            /\ cen[i] = 0 => ret.ranks[i].k = "fin"
            /\ cen[i] # 0 => ret.ranks[i].k = "nan"

\* two uncensored entries with a censored entry between them
C9_Witness ==
  /\ Returned("rank_adjust") /\ ret.kind = "ok"
  /\ Len(args.t) = 3
  /\ Take(Val(args.censored), idx) = <<0, 1, 0>>

\* C10: each fitter fails with the invalid-direction error (the source
\* raises Exception) and returns no parameters for a direction other
\* than 'x' or 'y', with or without a limited-failure-population fit.
C10_InvalidDirection ==
  (pc = "done" /\ fn \in Fitters /\ args.rr \notin {"x", "y"}
   /\ Len(args.t) > 0 /\ args.plotting \in Formulas)
  => ret.kind = "Exception"

\* C11: kaplan_meier returns no result with an infinite or NaN cumulative
\* hazard: where R reaches 0 or a risk count is 0 the call fails instead.
C11_NoInfiniteHazard ==
  (Returned("kaplan_meier") /\ ret.kind = "ok") =>
    \A i \in Rows(ret.H) : ret.H[i].k \notin {"inf", "nan"}

\* the entries of a plotting_positions call that are uncensored: all of
\* them without censoring codes, those of code 0 in sorted order with them
UncensoredPositions ==
  IF IsNone(args.censored) THEN Rows(args.t)
  ELSE {k \in Rows(args.t) : Take(Val(args.censored), idx)[k] = 0}

\* p lies strictly between 0 and 1
InsideUnit(p) == FLt(FInt(0), p) /\ FLt(p, FInt(1))

\* C12 as stated: for every formula of the table and every sample of one
\* or more entries, the plotting position of every uncensored entry lies
\* strictly between 0 and 1.
C12_AllFormulasInside ==
  (/\ Returned("plotting_positions") /\ args.formula \in Formulas
   /\ Len(args.t) >= 1)
  => \A k \in UncensoredPositions : InsideUnit(ret.pp[k])

\* the formulas with A = 1 (a rank of 1 or less maps to 0 or below) or
\* with A + B = 0 (the rank n maps to 1)
EdgeFormulas == {"Modal", "DPW", "None"}

\* C12 amended: for every formula of the table but Modal, DPW and None,
\* and every sample of one or more entries, the plotting position of every
\* uncensored entry lies strictly between 0 and 1.
C12_InsideUnit ==
  (/\ Returned("plotting_positions") /\ args.formula \in Formulas \ EdgeFormulas
   /\ Len(args.t) >= 1)
  => \A k \in UncensoredPositions : InsideUnit(ret.pp[k])

\* adjusted ranks of two uncensored entries around a censored one, under
\* a formula with B = 0
C12_Witness ==
  /\ Returned("plotting_positions") /\ ret.kind = "ok"
  /\ args.formula = "Midpoint"
  /\ ~IsNone(args.censored)
  /\ Take(Val(args.censored), idx) = <<0, 1, 0>>

\* C13: for every input to get_r_c_d with censoring codes in {0,1}, in all
\* four encodings, the failures and censorings account for every unit
\* once: sum(d) + sum(c) = N, the last row leaves r - d - c = 0, and no
\* d[i] or c[i] is negative.
C13_PopulationConserved ==
  (Returned("get_r_c_d") /\ ret.kind = "ok") =>
    LET m == Len(ret.r)
    IN /\ SumSeq(ret.d) + SumSeq(ret.c) = PopSize(args.x, args.counts)
       /\ m > 0 => ret.r[m] - ret.d[m] - ret.c[m] = 0
       /\ \A i \in Rows(ret.d) : ret.d[i] >= 0 /\ ret.c[i] >= 0

====
